---- MODULE Spec2Model ----
(***************************************************************************)
(* A model of bom_csv_multi_distributor.py: the value normalizer, the      *)
(* JLCPCB part record and part database, the pickled-database loader and   *)
(* the JLCPCB sanity-check loop of the script.                             *)
(*                                                                         *)
(* Python strings are sequences of one-character strings: "3k3" is         *)
(* <<"3", "k", "3">> and "" is <<>>.  The micro sign U+00B5 is written     *)
(* "mu" (one character).  A Python float is the decimal number m * 10^e    *)
(* held as [kind |-> "float", m, e] with m not divisible by 10 (0.0 is     *)
(* m = 0, e = 0); None is [kind |-> "none"].                               *)
(***************************************************************************)
EXTENDS Integers, Sequences, FiniteSets, TLC

VARIABLES
    pc,              \* position of the script / of the function under study
    rawValue,        \* normalizeValue: its argument
    normResult,      \* normalizeValue: the value it returned
    dbFile,          \* JLCPCB_Part_Database.csv: its rows, or None if absent
    pklFile,         \* CachedJLCPCB.pkl: its content, or None if absent
    PLUGIN_VERSION,  \* the version string of the installed script
    jlcDB,           \* the script's jlcDB
    loadPath,        \* the path loadJLCPCBDatabase took to its return
    jlcpcbPart,      \* the script's jlcpcbPart: the item being checked
    part,            \* the script's part: the database part of the item
    res,             \* the script's res: what checkMatchCachedPart returned
    pNum,            \* the script's pNum
    tier,            \* the script's tier
    net,             \* the groups net.groupComponents() yields
    groupIdx,        \* the group the loop over the groups is at
    jlcpcbRows,      \* the script's jlcpcbRows
    digikeyRows,     \* the script's digikeyRows
    orphanRows,      \* the script's orphanRows
    warnings,        \* the script's warnings
    jlcpcbItems,     \* the script's jlcpcbItems
    jlcpcbFile,      \* <project>_BOM_JLCPCB.csv: its rows, or None
    digikeyFile,     \* <project>_BOM_Digikey.csv: its rows, or None
    orphanFile,      \* <project>_BOM_Orphaned.csv: its rows, or None
    reportFile,      \* <project>_BOM_Report.txt: its content, or None
    itemIdx,         \* the item the sanity-check loop is at
    numPass,         \* the script's numPass
    numFail,         \* the script's numFail
    numUkn,          \* the script's numUkn
    jlcpcbSanityNotes,        \* the script's jlcpcbSanityNotes
    jlcpcbSanitySuggestions,  \* the script's jlcpcbSanitySuggestions
    jlcpcbSanityMissing       \* the script's jlcpcbSanityMissing

normVars == <<rawValue, normResult>>

fileVars == <<dbFile, pklFile, PLUGIN_VERSION>>

checkVars == <<jlcpcbPart, part, res, pNum, tier>>

dbVars == <<jlcDB, loadPath>>

bomVars ==
    <<net, groupIdx, jlcpcbRows, digikeyRows, orphanRows, warnings,
      jlcpcbItems, jlcpcbFile, digikeyFile, orphanFile, reportFile>>

sanityVars ==
    <<itemIdx, numPass, numFail, numUkn, jlcpcbSanityNotes,
      jlcpcbSanitySuggestions, jlcpcbSanityMissing>>

vars == <<pc, normVars, fileVars, dbVars, checkVars, bomVars, sanityVars>>

(***************************************************************************)
(* Characters and the str methods the script uses.                         *)
(***************************************************************************)
Digits == {"0", "1", "2", "3", "4", "5", "6", "7", "8", "9"}

DigitSeq == <<"0", "1", "2", "3", "4", "5", "6", "7", "8", "9">>

LowerSeq == <<"a", "b", "c", "d", "e", "f", "g", "h", "i", "j", "k", "l", "m",
              "n", "o", "p", "q", "r", "s", "t", "u", "v", "w", "x", "y", "z">>

UpperSeq == <<"A", "B", "C", "D", "E", "F", "G", "H", "I", "J", "K", "L", "M",
              "N", "O", "P", "Q", "R", "S", "T", "U", "V", "W", "X", "Y", "Z">>

Range(s) == {s[i] : i \in DOMAIN s}

\* U+00B5 MICRO SIGN, and what str.upper() / str.lower() make of it
\* (U+039C GREEK CAPITAL MU, U+03BC GREEK SMALL MU).
Micro == "mu"

GreekCapitalMu == "GREEK-MU"

GreekSmallMu == "greek-mu"

IsDigit(c) == c \in Digits

IsAlpha(c) == c \in Range(LowerSeq) \cup Range(UpperSeq)
                    \cup {Micro, GreekCapitalMu, GreekSmallMu}

IsAlnum(c) == IsDigit(c) \/ IsAlpha(c)

DigitVal(c) == (CHOOSE i \in DOMAIN DigitSeq : DigitSeq[i] = c) - 1

LowerChar(c) ==
    IF c \in Range(UpperSeq)
    THEN LowerSeq[CHOOSE i \in DOMAIN UpperSeq : UpperSeq[i] = c]
    ELSE IF c = GreekCapitalMu THEN GreekSmallMu ELSE c

UpperChar(c) ==
    IF c \in Range(LowerSeq)
    THEN UpperSeq[CHOOSE i \in DOMAIN LowerSeq : LowerSeq[i] = c]
    ELSE IF c \in {Micro, GreekSmallMu} THEN GreekCapitalMu ELSE c

StrLower(s) == [i \in DOMAIN s |-> LowerChar(s[i])]

StrUpper(s) == [i \in DOMAIN s |-> UpperChar(s[i])]

\* s.replace(a, b) for one-character a and b
ReplaceChar(s, a, b) == [i \in DOMAIN s |-> IF s[i] = a THEN b ELSE s[i]]

\* a in b (substring containment)
StrIn(a, b) ==
    \E i \in 0..(Len(b) - Len(a)) : SubSeq(b, i + 1, i + Len(a)) = a

\* s.split(":")[-1]
LastColonSegment(s) ==
    LET colons == {i \in DOMAIN s : s[i] = ":"}
        last == IF colons = {} THEN 0
                ELSE CHOOSE i \in colons : \A j \in colons : j <= i
    IN SubSeq(s, last + 1, Len(s))

(***************************************************************************)
(* Python values: None, float, str.                                        *)
(***************************************************************************)
None == [kind |-> "none"]

PyStrVal(s) == [kind |-> "str", s |-> s]

RECURSIVE Pow10(_)
Pow10(n) == IF n <= 0 THEN 1 ELSE 10 * Pow10(n - 1)

RECURSIVE StripZeros(_, _)
\* the float m * 10^e with the trailing zeros of m moved into e
StripZeros(m, e) ==
    IF m = 0 THEN [kind |-> "float", m |-> 0, e |-> 0]
    ELSE IF m % 10 = 0 THEN StripZeros(m \div 10, e + 1)
    ELSE [kind |-> "float", m |-> m, e |-> e]

RECURSIVE NatDigits(_)
\* the decimal digits of a natural number, most significant first
NatDigits(n) ==
    IF n < 10 THEN <<DigitSeq[n + 1]>>
    ELSE NatDigits(n \div 10) \o <<DigitSeq[(n % 10) + 1]>>

RECURSIVE Zeros(_)
Zeros(n) == IF n <= 0 THEN <<>> ELSE <<"0">> \o Zeros(n - 1)

\* str(x) of a float: repr's shortest digits, in fixed notation when the
\* decimal point falls in -4 < decpt <= 16 and in exponent notation otherwise
FloatStr(x) ==
    IF x.m = 0 THEN <<"0", ".", "0">>
    ELSE
      LET d == NatDigits(x.m)
          n == Len(d)
          decpt == n + x.e
          ex == decpt - 1
          absEx == IF ex < 0 THEN 0 - ex ELSE ex
          exDigits == IF absEx < 10 THEN <<"0">> \o NatDigits(absEx)
                      ELSE NatDigits(absEx)
      IN IF decpt <= -4 \/ decpt > 16
         THEN <<d[1]>>
              \o (IF n > 1 THEN <<".">> \o SubSeq(d, 2, n) ELSE <<>>)
              \o <<"e", IF ex < 0 THEN "-" ELSE "+">> \o exDigits
         ELSE IF decpt <= 0
              THEN <<"0", ".">> \o Zeros(0 - decpt) \o d
         ELSE IF decpt >= n
              THEN d \o Zeros(decpt - n) \o <<".", "0">>
         ELSE SubSeq(d, 1, decpt) \o <<".">> \o SubSeq(d, decpt + 1, n)

\* str(x), as an f-string or str() renders a value
PyStr(x) ==
    IF x.kind = "none" THEN <<"N", "o", "n", "e">>
    ELSE IF x.kind = "float" THEN FloatStr(x)
    ELSE x.s

(***************************************************************************)
(* normalizeValue                                                          *)
(***************************************************************************)
MAGS == [c \in {"p", "n", "u", Micro, "m", "k", "M", "G"} |->
            CASE c = "p" -> -12
              [] c = "n" -> -9
              [] c = "u" -> -6
              [] c = Micro -> -6
              [] c = "m" -> -3
              [] c = "k" -> 3
              [] c = "M" -> 6
              [] c = "G" -> 9]

RECURSIVE NormScan(_, _, _, _)
\* the loop "for c in rawValue": the characters kept in val, and mag
NormScan(s, i, val, mag) ==
    IF i > Len(s) THEN [val |-> val, mag |-> mag]
    ELSE IF IsDigit(s[i]) \/ s[i] = "."
         THEN NormScan(s, i + 1, Append(val, s[i]), mag)
    ELSE IF mag = 0 /\ s[i] \in DOMAIN MAGS
         THEN NormScan(s, i + 1, val, MAGS[s[i]])
    ELSE NormScan(s, i + 1, val, mag)

RECURSIVE DigitsToNat(_)
DigitsToNat(d) ==
    IF d = <<>> THEN 0
    ELSE 10 * DigitsToNat(SubSeq(d, 1, Len(d) - 1)) + DigitVal(d[Len(d)])

\* float(val) raises ValueError unless val holds a digit and at most one "."
FloatParses(val) ==
    /\ Cardinality({i \in DOMAIN val : val[i] = "."}) <= 1
    /\ \E i \in DOMAIN val : IsDigit(val[i])

\* round(m * 10^e, 15) for a float m * 10^e
Round15(m, e) ==
    IF e >= -15 THEN StripZeros(m, e)
    ELSE LET k == -15 - e
         IN IF k > 9 THEN StripZeros(0, 0)
            ELSE LET q == m \div Pow10(k)
                     r == m % Pow10(k)
                     half == 5 * Pow10(k - 1)
                     up == r > half \/ (r = half /\ q % 2 = 1)
                 IN StripZeros(IF up THEN q + 1 ELSE q, -15)

\* float(val) * (10**mag), rounded to 15 decimals
ScaledFloat(val, mag) ==
    LET dots == {i \in DOMAIN val : val[i] = "."}
        frac == IF dots = {} THEN 0 ELSE Len(val) - (CHOOSE i \in dots : TRUE)
        n == DigitsToNat(SelectSeq(val, IsDigit))
    IN Round15(n, mag - frac)

normalizeValue(raw) ==
    LET scan == NormScan(ReplaceChar(raw, ",", "."), 1, <<>>, 0)
    IN IF FloatParses(scan.val) THEN ScaledFloat(scan.val, scan.mag)
       ELSE None

(***************************************************************************)
(* JLCPCBPartData: one part of the JLCPCB parts database.                  *)
(***************************************************************************)
onlyAlphanum(inStr) == SelectSeq(inStr, IsAlnum)

JLCPCBPartData(partNum, type, value, footprint, edited, partTier) ==
    [partNum |-> partNum, type |-> type, value |-> value,
     normalValue |-> normalizeValue(value), footprint |-> footprint,
     edited |-> edited, partTier |-> partTier]

getIsBasic(self) == self.partTier = <<"B">>

getIsPreferred(self) == self.partTier = <<"P">>

getIsExtended(self) == self.partTier = <<"E">>

TxtIsExpectedType ==
    <<"]", " ", "i", "s", " ", "e", "x", "p", "e", "c", "t", "e", "d", " ",
      "t", "o", " ", "b", "e", " ", "t", "y", "p", "e", " ", "\"">>

TxtValueIs ==
    <<"]", "'", "s", " ", "v", "a", "l", "u", "e", " ", "i", "s", " ",
      "\"">>

TxtExpected ==
    <<"\"", ",", " ", "e", "x", "p", "e", "c", "t", "e", "d", " ", "\"">>

TxtFootprintIs ==
    <<"]", "'", "s", " ", "f", "o", "o", "t", "p", "r", "i", "n", "t", " ",
      "i", "s", " ", "\"">>

\* the type is a prefix of the cleaned reference, not equal to it
checkMatchTypePrefix(self, inType) ==
    LET cleanType == StrLower(SelectSeq(inType, IsAlpha))
        own == StrLower(self.type)
    IN \/ SubSeq(own, 1, Len(cleanType)) = cleanType
       \/ SubSeq(cleanType, 1, Len(own)) = own

checkMatchType(self, inType) ==
    LET cleanType == SelectSeq(inType, IsAlpha)
    IN StrLower(self.type) = StrLower(cleanType)

checkMatchValue(self, inVal) ==
    LET norm == normalizeValue(inVal)
        cleanVal == IF norm = None THEN PyStrVal(inVal) ELSE norm
        rawVal == IF self.normalValue = None THEN PyStrVal(self.value)
                  ELSE self.normalValue
    IN StrIn(PyStr(rawVal), PyStr(cleanVal))

checkMatchFootprint(self, inFoot) ==
    LET cleanFoot == StrUpper(onlyAlphanum(LastColonSegment(inFoot)))
        selfFoot == StrUpper(onlyAlphanum(self.footprint))
    IN StrIn(selfFoot, cleanFoot)

TypeMessage(self, cached) ==
    <<"[">> \o cached.ref \o TxtIsExpectedType \o self.type \o <<"\"">>

ValueMessage(self, cached) ==
    <<"[">> \o cached.ref \o TxtValueIs \o cached.value \o TxtExpected
        \o self.value \o <<"\"">>

FootprintMessage(self, cached) ==
    <<"[">> \o cached.ref \o TxtFootprintIs \o cached.footprint
        \o TxtExpected \o self.footprint \o <<"\"">>

\* the checks reported in the order value, type, footprint
checkMatchCachedPartValueFirst(self, cached) ==
    IF self.value # <<>> /\ ~checkMatchValue(self, cached.value)
    THEN ValueMessage(self, cached)
    ELSE IF self.type # <<>> /\ ~checkMatchType(self, cached.ref)
    THEN TypeMessage(self, cached)
    ELSE IF self.footprint # <<>>
            /\ ~checkMatchFootprint(self, cached.footprint)
    THEN FootprintMessage(self, cached)
    ELSE <<>>

\* "" if the part matches, the message of the first failing check if not
checkMatchCachedPart(self, cached) ==
    LET mType == checkMatchType(self, cached.ref)
        mValue == checkMatchValue(self, cached.value)
        mFoot == checkMatchFootprint(self, cached.footprint)
    IN IF self.type # <<>> /\ ~mType THEN TypeMessage(self, cached)
       ELSE IF self.value # <<>> /\ ~mValue THEN ValueMessage(self, cached)
       ELSE IF self.footprint # <<>> /\ ~mFoot
       THEN FootprintMessage(self, cached)
       ELSE <<>>

\* the normalized value, or the value text (a str) when there is none
getNormalizedValue(self) ==
    IF self.normalValue # None THEN self.normalValue ELSE PyStrVal(self.value)

(***************************************************************************)
(* JLCPCBPartDatabase.  The dict parts keeps insertion order: it is the    *)
(* sequence of its values, one per key.  The dict partsLookup is a         *)
(* function from the hash strings to the lists of parts.                   *)
(***************************************************************************)
\* a file of the database: the rows csv.DictReader reads from it
FileOf(rows) == [kind |-> "file", rows |-> rows]

\* the SHA1 digest of a file's content, taken to be collision-free
computeSHA1(source) == [kind |-> "sha1", of |-> source.rows]

\* int(text) raises ValueError unless text is a run of digits (the Edited
\* texts of the model carry no sign, blank or underscore)
IntParses(text) == text # <<>> /\ \A i \in DOMAIN text : IsDigit(text[i])

\* parts.update({pNum : part})
DictUpdate(parts, p) ==
    IF \E i \in DOMAIN parts : parts[i].partNum = p.partNum
    THEN [i \in DOMAIN parts |->
            IF parts[i].partNum = p.partNum THEN p ELSE parts[i]]
    ELSE Append(parts, p)

RECURSIVE ReadRows(_, _, _, _)
\* the loop "for row in csvReader" of __init__: parts and lastUpdate
ReadRows(rows, i, parts, lastUpdate) ==
    IF i > Len(rows) THEN [parts |-> parts, lastUpdate |-> lastUpdate]
    ELSE LET row == rows[i]
             ok == IntParses(row.Edited)
             pEdited == IF ok
                        THEN [kind |-> "int", n |-> DigitsToNat(row.Edited)]
                        ELSE PyStrVal(row.Edited)
             newest == IF ok /\ pEdited.n > lastUpdate THEN pEdited.n
                       ELSE lastUpdate
             p == JLCPCBPartData(row.Number, row.Type, row.Value,
                                 row.Footprint, pEdited, row.Tier)
         IN ReadRows(rows, i + 1, DictUpdate(parts, p), newest)

\* hash = f"{partVal}{partFoot}" of generatePartCache
PartHash(p) == PyStr(getNormalizedValue(p)) \o p.footprint

\* the body of the loop of generatePartCache for one part, with a bucket
\* that is replaced and not appended to
CachePutOverwrite(cache, p) ==
    (PartHash(p) :> <<p>>) @@ cache

\* the body of the loop of generatePartCache for one part
CachePut(cache, p) ==
    LET hash == PartHash(p)
    IN IF hash \in DOMAIN cache
       THEN [cache EXCEPT ![hash] = Append(@, p)]
       ELSE (hash :> <<p>>) @@ cache

RECURSIVE CacheLoop(_, _, _)
CacheLoop(parts, i, cache) ==
    IF i > Len(parts) THEN cache
    ELSE CacheLoop(parts, i + 1, CachePut(cache, parts[i]))

generatePartCache(parts) == CacheLoop(parts, 1, <<>>)

\* the columns __init__ reads of every row
RequiredColumns == {"Number", "Type", "Value", "Footprint", "Tier", "Edited"}

\* row["..."] raises KeyError: the header of the file lacks a column, so
\* that the rows csv.DictReader yields lack its key
RaisesKeyError(source) ==
    \E i \in DOMAIN source.rows :
        ~(RequiredColumns \subseteq DOMAIN source.rows[i])

\* JLCPCBPartDatabase(source, dbHash), for a source it raises nothing on
JLCPCBPartDatabase(source, dbHash, pluginVersion) ==
    LET read == ReadRows(source.rows, 1, <<>>, 0)
    IN [srcHash |-> IF dbHash # None THEN dbHash ELSE computeSHA1(source),
        srcPluginVer |-> pluginVersion,
        parts |-> read.parts,
        lastUpdate |-> read.lastUpdate,
        partsLookup |-> generatePartCache(read.parts)]

\* hash = f"{indVal}{footprint}" of getBasicPartNum
LookupHash(value, footprint) == PyStr(normalizeValue(value)) \o footprint

RECURSIVE BasicScanFirstPreferred(_, _, _)
\* the scan of a bucket keeping the first Preferred part it meets
BasicScanFirstPreferred(parts, i, prefPart) ==
    IF i > Len(parts) THEN prefPart
    ELSE IF getIsBasic(parts[i])
         THEN <<PyStrVal(parts[i].partNum), PyStrVal(<<"B">>)>>
    ELSE IF getIsPreferred(parts[i]) /\ prefPart = <<None, None>>
         THEN BasicScanFirstPreferred(parts, i + 1,
                    <<PyStrVal(parts[i].partNum), PyStrVal(<<"P">>)>>)
    ELSE BasicScanFirstPreferred(parts, i + 1, prefPart)

RECURSIVE BasicScan(_, _, _)
\* the loop "for part in parts" of getBasicPartNum
BasicScan(parts, i, prefPart) ==
    IF i > Len(parts) THEN prefPart
    ELSE IF getIsBasic(parts[i])
         THEN <<PyStrVal(parts[i].partNum), PyStrVal(<<"B">>)>>
    ELSE IF getIsPreferred(parts[i])
         THEN BasicScan(parts, i + 1,
                        <<PyStrVal(parts[i].partNum), PyStrVal(<<"P">>)>>)
    ELSE BasicScan(parts, i + 1, prefPart)

\* getBasicPartNum(value, footprint, cachedPart): (partNum, tier)
getBasicPartNum(self, value, footprint, cachedPart) ==
    LET v == IF cachedPart # None THEN cachedPart.value ELSE value
        f == IF cachedPart # None THEN cachedPart.footprint ELSE footprint
        hash == LookupHash(v, f)
    IN IF hash \in DOMAIN self.partsLookup
       THEN BasicScan(self.partsLookup[hash], 1, <<None, None>>)
       ELSE <<None, None>>

getPart(self, partNum) ==
    IF \E i \in DOMAIN self.parts : self.parts[i].partNum = partNum
    THEN self.parts[CHOOSE i \in DOMAIN self.parts :
                        self.parts[i].partNum = partNum]
    ELSE None

\* a part found in the schematic
CachedJLCPCBPart(jlcpcbNum, ref, value, footprint) ==
    [jlcpcbNum |-> jlcpcbNum, ref |-> ref, value |-> value,
     footprint |-> footprint]

(***************************************************************************)
(* loadJLCPCBDatabase.  The content of the pickle file is PickleOf(obj),   *)
(* what pickle.dump(obj) wrote and pickle.load gives back as obj, or       *)
(* Garbage, bytes pickle.load raises on.  ForeignObject is an object that  *)
(* has no srcHash and no srcPluginVer attribute.                           *)
(***************************************************************************)
PickleOf(obj) == [kind |-> "pickle", obj |-> obj]

Garbage == [kind |-> "garbage"]

ForeignObject == [kind |-> "object"]

\* the object has the attributes srcHash and srcPluginVer
HasSrcAttributes(obj) == {"srcHash", "srcPluginVer"} \subseteq DOMAIN obj

\* the result of a call: the value returned, the pickle file afterwards,
\* the path taken, and whether an exception left the function
LoadResult(db, pkl, path) == [jlcDB |-> db, pklFile |-> pkl, path |-> path]

\* the rebuild "jlcDB = JLCPCBPartDatabase(dbFile, dbHash=dbHash)" and the
\* pickle.dump that follows it; a KeyError of the constructor leaves the
\* function before the pickle file is opened
LoadFromCsv(file, pkl, pluginVersion) ==
    IF RaisesKeyError(file) THEN LoadResult(None, pkl, "raised")
    ELSE LET db == JLCPCBPartDatabase(file, computeSHA1(file), pluginVersion)
         IN LoadResult(db, PickleOf(db), "rebuilt")

\* loadJLCPCBDatabase returning the pickled database whenever its srcHash
\* is the hash of the file, whatever its srcPluginVer
loadJLCPCBDatabaseAnyVersion(file, pkl, pluginVersion) ==
    IF file = None THEN LoadResult(None, pkl, "no-file")
    ELSE IF pkl # None /\ pkl = Garbage
         THEN LoadResult(None, pkl, "raised")
    ELSE IF pkl # None /\ ~HasSrcAttributes(pkl.obj)
         THEN LoadResult(None, pkl, "raised")
    ELSE IF pkl # None /\ pkl.obj.srcHash = computeSHA1(file)
         THEN LoadResult(pkl.obj, pkl, "cached")
    ELSE LoadFromCsv(file, pkl, pluginVersion)

\* loadJLCPCBDatabase returning the pickled database whenever its
\* srcPluginVer is the version of the script, whatever its srcHash
loadJLCPCBDatabaseAnyHash(file, pkl, pluginVersion) ==
    IF file = None THEN LoadResult(None, pkl, "no-file")
    ELSE IF pkl # None /\ pkl = Garbage
         THEN LoadResult(None, pkl, "raised")
    ELSE IF pkl # None /\ ~HasSrcAttributes(pkl.obj)
         THEN LoadResult(None, pkl, "raised")
    ELSE IF pkl # None /\ pkl.obj.srcPluginVer = pluginVersion
         THEN LoadResult(pkl.obj, pkl, "cached")
    ELSE LoadFromCsv(file, pkl, pluginVersion)

\* loadJLCPCBDatabase(dbFile, pklFile), DO_PICKLE_JLCPCB_DB being True
loadJLCPCBDatabase(file, pkl, pluginVersion) ==
    IF file = None THEN LoadResult(None, pkl, "no-file")
    ELSE IF pkl # None /\ pkl = Garbage
         THEN LoadResult(None, pkl, "raised")
    ELSE IF pkl # None /\ ~HasSrcAttributes(pkl.obj)
         THEN LoadResult(None, pkl, "raised")
    ELSE IF /\ pkl # None
            /\ pkl.obj.srcHash = computeSHA1(file)
            /\ pkl.obj.srcPluginVer = pluginVersion
         THEN LoadResult(pkl.obj, pkl, "cached")
    ELSE LoadFromCsv(file, pkl, pluginVersion)

(***************************************************************************)
(* The loop over the component groups of the netlist.  A component is      *)
(* [ref, value, footprint, desc, fields], fields being the list of its     *)
(* [name, value] fields in the order getFieldNames() gives them.  A dict   *)
(* {PartNum:[RefList]} is the sequence of its [key, refs] items.           *)
(***************************************************************************)
JLCPCB_FIELDS ==
    << <<"L", "C", "S", "C">>,
       <<"L", "C", "S", "C", " ", "P", "a", "r", "t">>,
       <<"J", "L", "C", "P", "C", "B">> >>

DIGIKEY_FIELDS ==
    << <<"D", "i", "g", "i", "k", "e", "y">>,
       <<"D", "i", "g", "i", "-", "K", "e", "y">>,
       <<"D", "i", "g", "i", "-", "K", "e", "y", "_", "P", "N">> >>

Whitespace == {" ", "\t", "\n", "\r"}

RECURSIVE StrStrip(_)
\* s.strip()
StrStrip(s) ==
    IF s = <<>> THEN s
    ELSE IF s[1] \in Whitespace THEN StrStrip(SubSeq(s, 2, Len(s)))
    ELSE IF s[Len(s)] \in Whitespace THEN StrStrip(SubSeq(s, 1, Len(s) - 1))
    ELSE s

RECURSIVE StrJoin(_, _)
\* sep.join(list)
StrJoin(sep, list) ==
    IF list = <<>> THEN <<>>
    ELSE IF Len(list) = 1 THEN list[1]
    ELSE list[1] \o sep \o StrJoin(sep, Tail(list))

\* component.getField(name): the value of the field, "" if it has none
getField(component, name) ==
    IF \E i \in DOMAIN component.fields : component.fields[i].name = name
    THEN component.fields[CHOOSE i \in DOMAIN component.fields :
            /\ component.fields[i].name = name
            /\ \A j \in 1..(i - 1) : component.fields[j].name # name].value
    ELSE <<>>

\* checkFields(component, fields, ignoreCase): the stripped value of the
\* first field found, or None
checkFields(component, fields, ignoreCase) ==
    IF ignoreCase
    THEN LET hits == {i \in DOMAIN component.fields :
                        \E j \in DOMAIN fields :
                            StrLower(component.fields[i].name)
                                = StrLower(fields[j])}
         IN IF hits = {} THEN None
            ELSE PyStrVal(StrStrip(
                    getField(component,
                        component.fields[CHOOSE i \in hits :
                            \A j \in hits : i <= j].name)))
    ELSE LET hits == {j \in DOMAIN fields :
                        StrStrip(getField(component, fields[j])) # <<>>}
         IN IF hits = {} THEN None
            ELSE PyStrVal(StrStrip(
                    getField(component,
                        fields[CHOOSE j \in hits : \A k \in hits : j <= k])))

\* isValidRefDes: ^[A-Z]{1,2}[1-9][0-9]*$ on the upper-cased string
isValidRefDes(refDes) ==
    LET u == StrUpper(refDes)
    IN \E n \in {1, 2} :
        /\ Len(u) > n
        /\ \A i \in 1..n : u[i] \in Range(UpperSeq)
        /\ u[n + 1] \in Digits \ {"0"}
        /\ \A i \in (n + 2)..Len(u) : u[i] \in Digits

TxtWarn ==
    <<"W", "A", "R", "N", ":", " ", "[">>

TxtNoStandardRef ==
    <<"]", " ", "d", "o", "e", "s", " ", "n", "o", "t", " ", "h", "a", "v",
      "e", " ", "a", " ", "s", "t", "a", "n", "d", "a", "r", "d", " ", "r",
      "e", "f", "e", "r", "e", "n", "c", "e", " ", "d", "e", "s", "i", "g",
      "n", "a", "t", "o", "r">>

TxtMultipleDistributors ==
    <<"]", " ", "h", "a", "s", " ", "m", "u", "l", "t", "i", "p", "l", "e",
      " ", "d", "i", "s", "t", "r", "i", "b", "u", "t", "o", "r", "s", " ",
      "d", "e", "f", "i", "n", "e", "d", " ", "(", "o", "n", "l", "y", " ",
      "u", "s", "i", "n", "g", " ", "f", "i", "r", "s", "t", " ", "f", "o",
      "u", "n", "d", ")">>

TxtWarnSymbols ==
    <<"W", "A", "R", "N", ":", " ", "S", "y", "m", "b", "o", "l", "s", " ",
      "[">>

TxtDifferentPartNumbers ==
    <<"]", " ", "a", "r", "e", " ", "i", "d", "e", "n", "t", "i", "c", "a",
      "l", " ", "b", "u", "t", " ", "h", "a", "v", "e", " ", "d", "i", "f",
      "f", "e", "r", "e", "n", "t", " ", "p", "a", "r", "t", " ", "n", "u",
      "m", "b", "e", "r", "s">>

\* distPartRefs with the reference added under distPartNum
AddRef(distPartRefs, distPartNum, ref) ==
    IF \E i \in DOMAIN distPartRefs : distPartRefs[i].key = distPartNum
    THEN [i \in DOMAIN distPartRefs |->
            IF distPartRefs[i].key = distPartNum
            THEN [distPartRefs[i] EXCEPT !.refs = Append(@, ref)]
            ELSE distPartRefs[i]]
    ELSE Append(distPartRefs, [key |-> distPartNum, refs |-> <<ref>>])

\* the body of "for component in group" with a loop over the distributors
\* that does not stop at the first one found
ProcessComponentEveryDistributor(g, comp, db) ==
    LET jlcpcbPartNum == checkFields(comp, JLCPCB_FIELDS, TRUE)
        digikeyPartNum == checkFields(comp, DIGIKEY_FIELDS, TRUE)
        warned == IF ~isValidRefDes(comp.ref)
                  THEN Append(g.warnings,
                              TxtWarn \o comp.ref \o TxtNoStandardRef)
                  ELSE g.warnings
        \* the loop over the distributors: JLCPCB, then Digikey
        useJlcpcb == jlcpcbPartNum # None
        doubled == useJlcpcb /\ digikeyPartNum # None
        useDigikey == digikeyPartNum # None
        orphaned == ~useJlcpcb /\ ~useDigikey
    IN [g EXCEPT
        !.jlcpcbPartRefs =
            IF useJlcpcb THEN AddRef(@, jlcpcbPartNum.s, comp.ref) ELSE @,
        !.digikeyPartRefs =
            IF useDigikey THEN AddRef(@, digikeyPartNum.s, comp.ref) ELSE @,
        !.warnings =
            IF doubled
            THEN Append(warned, TxtWarn \o comp.ref \o TxtMultipleDistributors)
            ELSE warned,
        !.orphanRefs = IF orphaned THEN Append(@, comp.ref) ELSE @,
        !.jlcpcbItems =
            IF db # None /\ jlcpcbPartNum # None
            THEN Append(@, CachedJLCPCBPart(jlcpcbPartNum.s, comp.ref,
                            comp.value, LastColonSegment(comp.footprint)))
            ELSE @]

\* the body of "for component in group" for one component; g holds the
\* dicts and lists of the group and of the script
ProcessComponent(g, comp, db) ==
    LET jlcpcbPartNum == checkFields(comp, JLCPCB_FIELDS, TRUE)
        digikeyPartNum == checkFields(comp, DIGIKEY_FIELDS, TRUE)
        warned == IF ~isValidRefDes(comp.ref)
                  THEN Append(g.warnings,
                              TxtWarn \o comp.ref \o TxtNoStandardRef)
                  ELSE g.warnings
        \* the loop over the distributors: JLCPCB, then Digikey
        useJlcpcb == jlcpcbPartNum # None
        doubled == useJlcpcb /\ digikeyPartNum # None
        useDigikey == ~useJlcpcb /\ digikeyPartNum # None
        orphaned == ~useJlcpcb /\ ~useDigikey
    IN [g EXCEPT
        !.jlcpcbPartRefs =
            IF useJlcpcb THEN AddRef(@, jlcpcbPartNum.s, comp.ref) ELSE @,
        !.digikeyPartRefs =
            IF useDigikey THEN AddRef(@, digikeyPartNum.s, comp.ref) ELSE @,
        !.warnings =
            IF doubled
            THEN Append(warned, TxtWarn \o comp.ref \o TxtMultipleDistributors)
            ELSE warned,
        !.orphanRefs = IF orphaned THEN Append(@, comp.ref) ELSE @,
        !.jlcpcbItems =
            IF db # None /\ jlcpcbPartNum # None
            THEN Append(@, CachedJLCPCBPart(jlcpcbPartNum.s, comp.ref,
                            comp.value, LastColonSegment(comp.footprint)))
            ELSE @]

RECURSIVE ComponentLoop(_, _, _, _)
ComponentLoop(g, group, i, db) ==
    IF i > Len(group) THEN g
    ELSE ComponentLoop(ProcessComponent(g, group[i], db), group, i + 1, db)

\* the warning of a dict of a group that has more than one part number
DifferingWarning(warned, parts) ==
    IF Len(parts) > 1
    THEN Append(warned,
            TxtWarnSymbols
            \o StrJoin(<<",", " ">>,
                 [i \in DOMAIN parts |-> StrJoin(<<"=">>, parts[i].refs)])
            \o TxtDifferentPartNumbers)
    ELSE warned

\* one iteration of "for group in net.groupComponents()"; s holds the rows,
\* the warnings and the items of the script
ProcessGroupBody(s, group, db) ==
    LET g == ComponentLoop(
                [jlcpcbPartRefs |-> <<>>, digikeyPartRefs |-> <<>>,
                 orphanRefs |-> <<>>, warnings |-> s.warnings,
                 jlcpcbItems |-> s.jlcpcbItems],
                group, 1, db)
        comp == group[Len(group)]
        value == comp.value
        desc == comp.desc
        footprint == LastColonSegment(comp.footprint)
    IN [jlcpcbRows |->
            s.jlcpcbRows \o
            [i \in DOMAIN g.jlcpcbPartRefs |->
                <<value \o <<" ">> \o desc,
                  StrJoin(<<",">>, g.jlcpcbPartRefs[i].refs),
                  footprint, g.jlcpcbPartRefs[i].key>>],
        digikeyRows |->
            s.digikeyRows \o
            [i \in DOMAIN g.digikeyPartRefs |->
                <<value, desc, StrJoin(<<",">>, g.digikeyPartRefs[i].refs),
                  footprint, g.digikeyPartRefs[i].key,
                  Len(g.digikeyPartRefs[i].refs)>>],
        orphanRows |->
            IF Len(g.orphanRefs) > 0
            THEN Append(s.orphanRows,
                    <<value \o <<" ">> \o desc,
                      StrJoin(<<",">>, g.orphanRefs), footprint>>)
            ELSE s.orphanRows,
        warnings |->
            DifferingWarning(DifferingWarning(g.warnings, g.jlcpcbPartRefs),
                             g.digikeyPartRefs),
        jlcpcbItems |-> g.jlcpcbItems]

(***************************************************************************)
(* The BoM files and the JLCPCB parts sanity-check.  A CSV file is the     *)
(* list of the rows csv.writer was given.                                  *)
(***************************************************************************)
JlcpcbHeader ==
    << <<"C", "o", "m", "m", "e", "n", "t">>,
       <<"D", "e", "s", "i", "g", "n", "a", "t", "o", "r">>,
       <<"F", "o", "o", "t", "p", "r", "i", "n", "t">>,
       <<"L", "C", "S", "C", " ", "P", "a", "r", "t", " ", "#">> >>

DigikeyHeader ==
    << <<"C", "u", "s", "t", "o", "m", "e", "r", " ", "R", "e", "f", "e", "r", "e", "n", "c", "e">>,
       <<"N", "o", "t", "e">>,
       <<"R", "e", "f", "e", "r", "e", "n", "c", "e", " ", "D", "e", "s", "i", "g", "n", "a", "t", "o", "r">>,
       <<"F", "o", "o", "t", "p", "r", "i", "n", "t">>,
       <<"D", "i", "g", "i", "-", "K", "e", "y", " ", "P", "a", "r", "t", " ", "N", "u", "m", "b", "e", "r">>,
       <<"Q", "u", "a", "n", "t", "i", "t", "y">> >>

OrphanHeader ==
    << <<"C", "o", "m", "m", "e", "n", "t">>,
       <<"D", "e", "s", "i", "g", "n", "a", "t", "o", "r">>,
       <<"F", "o", "o", "t", "p", "r", "i", "n", "t">> >>

CsvOf(rows) == [kind |-> "csv", rows |-> rows]

\* the file a "with open(...)" block writes when there are rows
WrittenFile(header, rows) ==
    IF Len(rows) > 0 THEN CsvOf(<<header>> \o rows) ELSE None

TxtAlt ==
    <<"A", "L", "T", ":", " ", "[">>

TxtPart ==
    <<"]", " ", "P", "a", "r", "t", " ">>

TxtCouldReplace ==
    <<")", " ", "c", "o", "u", "l", "d", " ", "r", "e", "p", "l", "a", "c",
      "e", " ">>

TxtUnknown ==
    <<" ", "(", "U", "n", "k", "n", "o", "w", "n", ")">>

TxtExtended ==
    <<" ", "(", "E", "x", "t", "e", "n", "d", "e", "d", ")">>

TxtBasic ==
    <<"B", "a", "s", "i", "c">>

TxtPreferred ==
    <<"P", "r", "e", "f", "e", "r", "r", "e", "d">>

TxtNotInDatabase ==
    <<")", " ", "n", "o", "t", " ", "i", "n", " ", "d", "a", "t", "a", "b",
      "a", "s", "e">>

\* f"ALT: [{ref}] Part {pNum} ({tier}) could replace {replaced}{suffix}"
AltMessage(ref, newNum, tierName, replaced, suffix) ==
    TxtAlt \o ref \o TxtPart \o newNum \o <<" ", "(">> \o tierName
        \o TxtCouldReplace \o replaced \o suffix

\* tier = "Basic" if tier=="B" else "Preferred"
TierName(t) == IF t = PyStrVal(<<"B">>) THEN TxtBasic ELSE TxtPreferred

\* the lookup of a replacement and the suggestion made of it; a holds the
\* counters, the lists and part, res, pNum, tier of the script
Suggest(db, item, a, replaced, suffix) ==
    LET found == getBasicPartNum(db, None, None, item)
    IN IF found[1] # None
       THEN [a EXCEPT
                !.pNum = found[1],
                !.tier = PyStrVal(TierName(found[2])),
                !.suggestions =
                    Append(@, AltMessage(item.ref, found[1].s,
                                TierName(found[2]), replaced, suffix))]
       ELSE [a EXCEPT !.pNum = found[1], !.tier = found[2]]

\* the loop body looking for a replacement of every part that matches,
\* Extended or not
SanityIterationAnyTier(db, item, a) ==
    LET dbPart == getPart(db, item.jlcpcbNum)
        result == checkMatchCachedPart(dbPart, item)
    IN IF dbPart = None
       THEN Suggest(db, item,
                [a EXCEPT !.part = None, !.numUkn = @ + 1,
                    !.missing = Append(@, item.jlcpcbNum \o <<" ", "(">>
                                    \o item.ref \o TxtNotInDatabase)],
                item.jlcpcbNum, TxtUnknown)
       ELSE IF result = <<>>
       THEN Suggest(db, item,
                    [a EXCEPT !.part = dbPart, !.res = result,
                              !.numPass = @ + 1],
                    dbPart.partNum, TxtExtended)
       ELSE [a EXCEPT !.part = dbPart, !.res = result, !.numFail = @ + 1,
                      !.notes = Append(@, result)]

\* the loop body looking for a replacement of a part that does not match
\* too
SanityIterationOnMismatch(db, item, a) ==
    LET dbPart == getPart(db, item.jlcpcbNum)
        result == checkMatchCachedPart(dbPart, item)
    IN IF dbPart = None
       THEN Suggest(db, item,
                [a EXCEPT !.part = None, !.numUkn = @ + 1,
                    !.missing = Append(@, item.jlcpcbNum \o <<" ", "(">>
                                    \o item.ref \o TxtNotInDatabase)],
                item.jlcpcbNum, TxtUnknown)
       ELSE IF result = <<>>
       THEN IF getIsExtended(dbPart)
            THEN Suggest(db, item,
                    [a EXCEPT !.part = dbPart, !.res = result,
                              !.numPass = @ + 1],
                    dbPart.partNum, TxtExtended)
            ELSE [a EXCEPT !.part = dbPart, !.res = result,
                           !.numPass = @ + 1]
       ELSE Suggest(db, item,
                [a EXCEPT !.part = dbPart, !.res = result,
                          !.numFail = @ + 1, !.notes = Append(@, result)],
                dbPart.partNum, TxtExtended)

\* one iteration of "for jlcpcbPart in jlcpcbItems"
SanityIteration(db, item, a) ==
    LET dbPart == getPart(db, item.jlcpcbNum)
        result == checkMatchCachedPart(dbPart, item)
    IN IF dbPart = None
       THEN Suggest(db, item,
                [a EXCEPT !.part = None, !.numUkn = @ + 1,
                    !.missing = Append(@, item.jlcpcbNum \o <<" ", "(">>
                                    \o item.ref \o TxtNotInDatabase)],
                item.jlcpcbNum, TxtUnknown)
       ELSE IF result = <<>>
       THEN IF getIsExtended(dbPart)
            THEN Suggest(db, item,
                    [a EXCEPT !.part = dbPart, !.res = result,
                              !.numPass = @ + 1],
                    dbPart.partNum, TxtExtended)
            ELSE [a EXCEPT !.part = dbPart, !.res = result,
                           !.numPass = @ + 1]
       ELSE [a EXCEPT !.part = dbPart, !.res = result, !.numFail = @ + 1,
                      !.notes = Append(@, result)]

(***************************************************************************)
(* The report.  Its text is held as the values its lines are formatted     *)
(* from; the times, the project name and the KiCad and Python versions     *)
(* are left out.                                                           *)
(***************************************************************************)
\* getNumItem()
getNumItem(self) == Len(self.parts)

\* getLastUpdate(string=True)
getLastUpdate(self) ==
    LET text == NatDigits(self.lastUpdate)
    IN IF Len(text) # 8 THEN <<"?">>
       ELSE SubSeq(text, 1, 4) \o <<".">> \o SubSeq(text, 5, 6) \o <<".">>
                \o SubSeq(text, 7, 8)

\* the lines "<name> BoM: <len(rows)>0> (<len(rows)> rows)"
BomLine(name, rows) ==
    [name |-> name, present |-> Len(rows) > 0, rows |-> Len(rows)]

\* the lines after "JLCPCB Parts Database File Present:"; counts is
\* <<numPass, numFail, numUkn>>
SanityLines(db, counts, sanityMsgs) ==
    IF db # None
    THEN [present |-> TRUE, numItem |-> getNumItem(db),
          updated |-> getLastUpdate(db), numPass |-> counts[1],
          numFail |-> counts[2], numUkn |-> counts[3], notes |-> sanityMsgs]
    ELSE [present |-> FALSE]

\* "\n".join(reportLines), as written to the report file
ReportOf(pluginVersion, jRows, dRows, oRows, warned, db, counts, sanityMsgs) ==
    [kind |-> "report",
     pluginVersion |-> pluginVersion,
     boms |-> <<BomLine("JLCPCB", jRows), BomLine("Digikey", dRows),
                BomLine("Orphaned", oRows)>>,
     notes |-> warned,
     sanity |-> SanityLines(db, counts, sanityMsgs)]

(***************************************************************************)
(* Bounds                                                                  *)
(***************************************************************************)
MaxLen == 3

RECURSIVE StringsUpTo(_, _)
\* the strings over the character set cs of length at most n
StringsUpTo(cs, n) ==
    IF n = 0 THEN {<<>>}
    ELSE LET shorter == StringsUpTo(cs, n - 1)
         IN shorter \cup {Append(s, c) : s \in shorter, c \in cs}

NormChars == {"0", "3", ".", ",", "k", "u", "F"}

MaxRows == 3

MaxGroups == 2

RECURSIVE SeqsUpTo(_, _)
\* the sequences over the set S of length at most n
SeqsUpTo(S, n) ==
    IF n = 0 THEN {<<>>}
    ELSE LET shorter == SeqsUpTo(S, n - 1)
         IN shorter \cup {Append(s, x) : s \in shorter, x \in S}

\* PLUGIN_VERSION = "Oct.28.2024 (V1.0.12)"
PluginVersion1012 ==
    <<"O", "c", "t", ".", "2", "8", ".", "2", "0", "2", "4", " ", "(", "V",
      "1", ".", "0", ".", "1", "2", ")">>

\* a row of the database file, as csv.DictReader yields it
Row(number, type, value, footprint, partTier, edited) ==
    [Number |-> number, Type |-> type, Value |-> value,
     Footprint |-> footprint, Tier |-> partTier, Edited |-> edited]

Tiers == {<<"B">>, <<"P">>, <<"E">>}

IndexNumbers == {<<"C", "1">>, <<"C", "2">>, <<"C", "3">>}

IndexValues == {<<"1", "k">>, <<"N", "P", "N">>}

IndexRows ==
    {Row(n, <<>>, v, <<"0", "6", "0", "3">>, t, <<>>) :
        n \in IndexNumbers, v \in IndexValues, t \in Tiers}

IndexTargets ==
    {CachedJLCPCBPart(<<"C", "9">>, <<"R", "1">>, v, <<"0", "6", "0", "3">>) :
        v \in IndexValues \cup {<<"1", "0", "0", "0">>, <<"2", "k">>}}

(***************************************************************************)
(* Values the variables a specification does not use are held at.          *)
(***************************************************************************)
NoCachedPart == CachedJLCPCBPart(<<>>, <<>>, <<>>, <<>>)

NormIdle == rawValue = <<>> /\ normResult = None

FilesIdle == dbFile = None /\ pklFile = None /\ PLUGIN_VERSION = <<>>

CheckIdle ==
    /\ jlcpcbPart = NoCachedPart
    /\ part = None
    /\ res = <<>>
    /\ pNum = None
    /\ tier = None

BomIdle ==
    /\ net = <<>>
    /\ groupIdx = 1
    /\ jlcpcbRows = <<>>
    /\ digikeyRows = <<>>
    /\ orphanRows = <<>>
    /\ warnings = <<>>
    /\ jlcpcbItems = <<>>
    /\ jlcpcbFile = None
    /\ digikeyFile = None
    /\ orphanFile = None
    /\ reportFile = None

SanityIdle ==
    /\ itemIdx = 1
    /\ numPass = 0
    /\ numFail = 0
    /\ numUkn = 0
    /\ jlcpcbSanityNotes = <<>>
    /\ jlcpcbSanitySuggestions = <<>>
    /\ jlcpcbSanityMissing = <<>>

(***************************************************************************)
(* SpecNorm: normalizeValue applied to every bounded string.               *)
(***************************************************************************)
InitNorm ==
    /\ pc = "call"
    /\ rawValue \in StringsUpTo(NormChars, MaxLen)
    /\ normResult = None
    /\ FilesIdle
    /\ jlcDB = None
    /\ loadPath = "none"
    /\ CheckIdle
    /\ BomIdle
    /\ SanityIdle

Normalize ==
    /\ pc = "call"
    /\ normResult' = normalizeValue(rawValue)
    /\ pc' = "returned"
    /\ UNCHANGED <<rawValue, fileVars, dbVars, checkVars, bomVars, sanityVars>>

NextNorm == Normalize

SpecNorm == InitNorm /\ [][NextNorm]_vars

\* the inputs <digits d1><prefix p><digits d2>: where p stands
EmbeddedPrefixAt(s) ==
    {i \in 2..(Len(s) - 1) :
        /\ s[i] \in DOMAIN MAGS
        /\ \A j \in DOMAIN s : j # i => IsDigit(s[j])}

\* C1: for an input <digits d1><prefix p><digits d2>, normalizeValue
\* returns the number d1.d2 times 10^exponent(p) ("3k3" gives 3300).
C1_EmbeddedPrefixIsDecimalPoint ==
    pc = "returned" =>
        \A i \in EmbeddedPrefixAt(rawValue) :
            normResult =
                StripZeros(DigitsToNat(SelectSeq(rawValue, IsDigit)),
                           MAGS[rawValue[i]] - (Len(rawValue) - i))

(***************************************************************************)
(* SpecIndex: a database built from every bounded file, then asked for a   *)
(* Basic part.                                                             *)
(***************************************************************************)
InitIndex ==
    /\ pc = "start"
    /\ NormIdle
    /\ dbFile \in {FileOf(rows) : rows \in SeqsUpTo(IndexRows, MaxRows)}
    /\ pklFile = None
    /\ PLUGIN_VERSION = PluginVersion1012
    /\ jlcDB = None
    /\ loadPath = "none"
    /\ CheckIdle
    /\ BomIdle
    /\ SanityIdle

\* jlcDB = JLCPCBPartDatabase(dbFile)
Construct ==
    /\ pc = "start"
    /\ jlcDB' = JLCPCBPartDatabase(dbFile, None, PLUGIN_VERSION)
    /\ pc' = "loaded"
    /\ UNCHANGED <<normVars, fileVars, loadPath, checkVars, bomVars, sanityVars>>

\* pNum, tier = jlcDB.getBasicPartNum(cachedPart=jlcpcbPart)
Query ==
    /\ pc = "loaded"
    /\ \E cached \in IndexTargets :
        /\ jlcpcbPart' = cached
        /\ pNum' = getBasicPartNum(jlcDB, None, None, cached)[1]
        /\ tier' = getBasicPartNum(jlcDB, None, None, cached)[2]
    /\ pc' = "queried"
    /\ UNCHANGED <<normVars, fileVars, dbVars, part, res, bomVars, sanityVars>>

NextIndex == Construct \/ Query

SpecIndex == InitIndex /\ [][NextIndex]_vars

RECURSIVE SumOfLens(_, _)
\* the number of entries of the lists f[k], k in keys
SumOfLens(f, keys) ==
    IF keys = {} THEN 0
    ELSE LET k == CHOOSE x \in keys : TRUE
         IN Len(f[k]) + SumOfLens(f, keys \ {k})

BucketEntries(db) == SumOfLens(db.partsLookup, DOMAIN db.partsLookup)

RowNumbers(rows) == {rows[i].Number : i \in DOMAIN rows}

\* C2, as claimed: the buckets of partsLookup hold one entry per loaded row.
C2_OneEntryPerRow ==
    pc = "loaded" => BucketEntries(jlcDB) = Len(dbFile.rows)

\* C2, amended: the buckets of partsLookup hold one entry per distinct part
\* number of the rows, which is one entry per part of the primary dict.
C2_OneEntryPerPartNumber ==
    pc = "loaded" =>
        /\ BucketEntries(jlcDB) = Cardinality(RowNumbers(dbFile.rows))
        /\ BucketEntries(jlcDB) = Len(jlcDB.parts)

C2_Witness ==
    /\ pc = "loaded"
    /\ Len(dbFile.rows) = 3
    /\ Cardinality(RowNumbers(dbFile.rows)) = 2
    /\ BucketEntries(jlcDB) = 2

\* the bucket getBasicPartNum scans for the target t
TargetBucket(db, t) ==
    IF LookupHash(t.value, t.footprint) \in DOMAIN db.partsLookup
    THEN db.partsLookup[LookupHash(t.value, t.footprint)]
    ELSE <<>>

TierIndexes(bucket, t) == {i \in DOMAIN bucket : bucket[i].partTier = t}

\* C3: getBasicPartNum returns the first Basic entry of the target's bucket
\* with tier "B"; with no Basic entry, the last Preferred entry with tier
\* "P"; with neither (or no bucket), (None, None).
C3_FirstBasicElseLastPreferred ==
    pc = "queried" =>
        LET bucket == TargetBucket(jlcDB, jlcpcbPart)
            basics == TierIndexes(bucket, <<"B">>)
            prefs == TierIndexes(bucket, <<"P">>)
        IN IF basics # {}
           THEN /\ \E i \in basics :
                    /\ \A j \in basics : i <= j
                    /\ pNum = PyStrVal(bucket[i].partNum)
                /\ tier = PyStrVal(<<"B">>)
           ELSE IF prefs # {}
           THEN /\ \E i \in prefs :
                    /\ \A j \in prefs : j <= i
                    /\ pNum = PyStrVal(bucket[i].partNum)
                /\ tier = PyStrVal(<<"P">>)
           ELSE pNum = None /\ tier = None

\* a bucket of Preferred P1 then P2 only, and P2 returned
C3_Witness ==
    /\ pc = "queried"
    /\ LET bucket == TargetBucket(jlcDB, jlcpcbPart)
       IN /\ Len(bucket) = 2
          /\ TierIndexes(bucket, <<"P">>) = {1, 2}
          /\ pNum = PyStrVal(bucket[2].partNum)
          /\ tier = PyStrVal(<<"P">>)

\* C4: for every part R of the database the hash getBasicPartNum computes
\* for (R.value, R.footprint) is the hash of R's bucket, so that asking for
\* the value and footprint of a Basic part returns a Basic part.
C4_SameHashAsIndexBuild ==
    /\ pc = "loaded" =>
         \A i \in DOMAIN jlcDB.parts :
            LookupHash(jlcDB.parts[i].value, jlcDB.parts[i].footprint)
                = PartHash(jlcDB.parts[i])
    /\ pc = "queried" =>
         \A i \in DOMAIN jlcDB.parts :
            (/\ getIsBasic(jlcDB.parts[i])
             /\ jlcDB.parts[i].value = jlcpcbPart.value
             /\ jlcDB.parts[i].footprint = jlcpcbPart.footprint)
            => tier = PyStrVal(<<"B">>)

(***************************************************************************)
(* SpecMatch: checkMatchCachedPart applied to every part and schematic     *)
(* part of two small families.                                             *)
(***************************************************************************)
MatchTypes == {<<>>, <<"C">>, <<"R">>}

MatchValues == {<<>>, <<"1", "k">>, <<"N", "P", "N">>}

MatchFootprints == {<<>>, <<"0", "6", "0", "3">>, <<"0", "8", "0", "5">>}

MatchParts ==
    {JLCPCBPartData(<<"C", "1">>, t, v, f, PyStrVal(<<>>), <<"B">>) :
        t \in MatchTypes, v \in MatchValues, f \in MatchFootprints}

MatchCachedParts ==
    {CachedJLCPCBPart(<<"C", "1">>, r, v, f) :
        r \in {<<"C", "1">>, <<"R", "2">>},
        v \in {<<"1", "k">>, <<"2", "k">>, <<"N", "P", "N">>,
               <<"1", "k", " ", "1", "%">>},
        f \in {<<"C", "_", "0", "6", "0", "3">>,
               <<"R", "_", "0", "8", "0", "5">>}}

InitMatch ==
    /\ pc = "call"
    /\ NormIdle
    /\ FilesIdle
    /\ jlcDB = None
    /\ loadPath = "none"
    /\ part \in MatchParts
    /\ jlcpcbPart \in MatchCachedParts
    /\ res = <<>>
    /\ pNum = None
    /\ tier = None
    /\ BomIdle
    /\ SanityIdle

\* res = part.checkMatchCachedPart(jlcpcbPart)
CheckMatch ==
    /\ pc = "call"
    /\ res' = checkMatchCachedPart(part, jlcpcbPart)
    /\ pc' = "returned"
    /\ UNCHANGED <<normVars, fileVars, dbVars, jlcpcbPart, part, pNum, tier,
                   bomVars, sanityVars>>

NextMatch == CheckMatch

SpecMatch == InitMatch /\ [][NextMatch]_vars

\* a dimension fails: the database field is not empty and the check fails
TypeFails(p, c) == p.type # <<>> /\ ~checkMatchType(p, c.ref)

ValueFails(p, c) == p.value # <<>> /\ ~checkMatchValue(p, c.value)

FootprintFails(p, c) ==
    p.footprint # <<>> /\ ~checkMatchFootprint(p, c.footprint)

\* C5: checkMatchCachedPart returns the message of the first failing
\* dimension in the order type, value, footprint, a dimension with an empty
\* database field never failing, and "" exactly when no dimension fails.
C5_FirstFailingDimension ==
    pc = "returned" =>
        /\ TypeFails(part, jlcpcbPart) => res = TypeMessage(part, jlcpcbPart)
        /\ (~TypeFails(part, jlcpcbPart) /\ ValueFails(part, jlcpcbPart))
            => res = ValueMessage(part, jlcpcbPart)
        /\ (/\ ~TypeFails(part, jlcpcbPart)
            /\ ~ValueFails(part, jlcpcbPart)
            /\ FootprintFails(part, jlcpcbPart))
            => res = FootprintMessage(part, jlcpcbPart)
        /\ res = <<>> <=> (/\ ~TypeFails(part, jlcpcbPart)
                           /\ ~ValueFails(part, jlcpcbPart)
                           /\ ~FootprintFails(part, jlcpcbPart))
        /\ part.type = <<>> => res # TypeMessage(part, jlcpcbPart)
        /\ part.value = <<>> => res # ValueMessage(part, jlcpcbPart)
        /\ part.footprint = <<>> => res # FootprintMessage(part, jlcpcbPart)

\* type and value both fail, and the type message alone is returned
C5_Witness ==
    /\ pc = "returned"
    /\ TypeFails(part, jlcpcbPart)
    /\ ValueFails(part, jlcpcbPart)
    /\ FootprintFails(part, jlcpcbPart)
    /\ res = TypeMessage(part, jlcpcbPart)
    /\ res # ValueMessage(part, jlcpcbPart)

(***************************************************************************)
(* SpecCache: runs of the script up to the loading of the database, the    *)
(* files and the installed version changing between the runs.              *)
(***************************************************************************)
\* the version string of another release of the script
PluginVersionOther ==
    <<"O", "c", "t", ".", "2", "0", ".", "2", "0", "2", "4", " ", "(", "V",
      "1", ".", "0", ".", "1", "1", ")">>

CacheVersions == {PluginVersion1012, PluginVersionOther}

CacheRowA ==
    Row(<<"C", "1">>, <<"R">>, <<"1", "k">>, <<"0", "6", "0", "3">>, <<"B">>,
        <<"2", "0", "2", "4", "0", "1", "0", "1">>)

CacheRowB ==
    Row(<<"C", "2">>, <<"R">>, <<"1", "k">>, <<"0", "6", "0", "3">>, <<"P">>,
        <<>>)

CacheFiles ==
    {FileOf(<<CacheRowA>>), FileOf(<<CacheRowB>>),
     FileOf(<<CacheRowA, CacheRowB>>)}

InitCache ==
    /\ pc = "start"
    /\ NormIdle
    /\ dbFile \in CacheFiles \cup {None}
    /\ pklFile = None
    /\ PLUGIN_VERSION = PluginVersion1012
    /\ jlcDB = None
    /\ loadPath = "none"
    /\ CheckIdle
    /\ BomIdle
    /\ SanityIdle

\* jlcDB = loadJLCPCBDatabase(jlcpcbDataFile, jlcpcbDataPklFile); an
\* exception leaving the function ends the script
LoadDatabase ==
    /\ pc = "start"
    /\ LET r == loadJLCPCBDatabase(dbFile, pklFile, PLUGIN_VERSION)
       IN /\ jlcDB' = r.jlcDB
          /\ pklFile' = r.pklFile
          /\ loadPath' = r.path
          /\ pc' = IF r.path = "raised" THEN "aborted" ELSE "loaded"
    /\ UNCHANGED <<normVars, dbFile, PLUGIN_VERSION, checkVars, bomVars, sanityVars>>

\* the script ends, and is run again later
RunAgain ==
    /\ pc \in {"loaded", "aborted"}
    /\ pc' = "start"
    /\ jlcDB' = None
    /\ loadPath' = "none"
    /\ UNCHANGED <<normVars, fileVars, checkVars, bomVars, sanityVars>>

\* between two runs the database file is replaced or removed
ReplaceDatabaseFile ==
    /\ pc = "start"
    /\ \E file \in (CacheFiles \cup {None}) \ {dbFile} : dbFile' = file
    /\ UNCHANGED <<pc, normVars, pklFile, PLUGIN_VERSION, dbVars, checkVars, bomVars, sanityVars>>

\* between two runs another release of the script is installed
InstallRelease ==
    /\ pc = "start"
    /\ \E v \in CacheVersions \ {PLUGIN_VERSION} : PLUGIN_VERSION' = v
    /\ UNCHANGED <<pc, normVars, dbFile, pklFile, dbVars, checkVars, bomVars, sanityVars>>

\* between two runs the pickle file is damaged, or replaced by the pickle
\* of something else
DamagePickleFile ==
    /\ pc = "start"
    /\ pklFile # None
    /\ \E content \in {Garbage, PickleOf(ForeignObject)} \ {pklFile} :
            pklFile' = content
    /\ UNCHANGED <<pc, normVars, dbFile, PLUGIN_VERSION, dbVars, checkVars, bomVars, sanityVars>>

\* between two runs the pickle file is deleted
DeletePickleFile ==
    /\ pc = "start"
    /\ pklFile # None
    /\ pklFile' = None
    /\ UNCHANGED <<pc, normVars, dbFile, PLUGIN_VERSION, dbVars, checkVars, bomVars, sanityVars>>

NextCache ==
    \/ LoadDatabase
    \/ RunAgain
    \/ ReplaceDatabaseFile
    \/ InstallRelease
    \/ DamagePickleFile
    \/ DeletePickleFile

SpecCache == InitCache /\ [][NextCache]_vars

\* the pickle file holds a pickled database
HoldsSnapshot(pkl) ==
    pkl # None /\ pkl # Garbage /\ HasSrcAttributes(pkl.obj)

\* the pickle file holds a database recorded with this hash and version
SnapshotOf(pkl, file, pluginVersion) ==
    /\ HoldsSnapshot(pkl)
    /\ pkl.obj.srcHash = computeSHA1(file)
    /\ pkl.obj.srcPluginVer = pluginVersion

\* C9: with the database file present (and the pickle file absent or
\* holding a pickled database), loadJLCPCBDatabase returns the pickled
\* database and leaves the pickle file unwritten if and only if the pickled
\* srcHash and srcPluginVer are the current ones; otherwise it builds the
\* database from the rows and writes its pickle; either way the pickle file
\* then holds a database recorded with this run's hash and version.
C9_SnapshotReusedIffHashAndVersionMatch ==
    [][(/\ LoadDatabase
        /\ dbFile # None
        /\ pklFile = None \/ HoldsSnapshot(pklFile))
       => /\ pc' = "loaded"
          /\ IF SnapshotOf(pklFile, dbFile, PLUGIN_VERSION)
             THEN /\ loadPath' = "cached"
                  /\ jlcDB' = pklFile.obj
                  /\ pklFile' = pklFile
             ELSE /\ loadPath' = "rebuilt"
                  /\ jlcDB'.parts = ReadRows(dbFile.rows, 1, <<>>, 0).parts
                  /\ pklFile' = PickleOf(jlcDB')
          /\ SnapshotOf(pklFile', dbFile, PLUGIN_VERSION)]_vars

\* a pickled database of the same file and another version was replaced
C9_Witness ==
    /\ pc = "loaded"
    /\ loadPath = "rebuilt"
    /\ PLUGIN_VERSION = PluginVersionOther
    /\ SnapshotOf(pklFile, dbFile, PLUGIN_VERSION)
    /\ jlcDB = pklFile.obj

\* C10: a pickle file that cannot be deserialized into a database, or whose
\* object lacks srcHash or srcPluginVer, never ends the run:
\* loadJLCPCBDatabase builds the database from the rows, writes a fresh
\* pickle and returns the database.
C10_CorruptSnapshotRebuilt ==
    [][(/\ LoadDatabase
        /\ dbFile # None
        /\ pklFile # None
        /\ ~HoldsSnapshot(pklFile))
       => /\ pc' = "loaded"
          /\ jlcDB' # None
          /\ jlcDB'.parts = ReadRows(dbFile.rows, 1, <<>>, 0).parts
          /\ pklFile' = PickleOf(jlcDB')]_vars

(***************************************************************************)
(* Spec: one run of the script, from the loading of the database to the    *)
(* end of the sanity-check, for a database file and a netlist of small     *)
(* families.                                                               *)
(***************************************************************************)
Component(ref, value, footprint, fields) ==
    [ref |-> ref, value |-> value, footprint |-> footprint, desc |-> <<>>,
     fields |-> fields]

Field(name, value) == [name |-> name, value |-> value]

Txt10uF == <<"1", "0", "u", "F">>

Txt0603 == <<"0", "6", "0", "3">>

RowCapacitor ==
    Row(<<"C", "0", "0", "1">>, <<"C", "a", "p", "a", "c", "i", "t", "o", "r">>, Txt10uF, Txt0603, <<"B">>, <<>>)

RowExtended == Row(<<"C", "0", "0", "2">>, <<"C">>, Txt10uF, Txt0603, <<"E">>, <<>>)

RowPreferred == Row(<<"C", "0", "0", "3">>, <<"C">>, Txt10uF, Txt0603, <<"P">>, <<>>)

RowBasic == Row(<<"C", "0", "0", "4">>, <<"C">>, Txt10uF, Txt0603, <<"B">>, <<>>)

RowExtendedOtherValue ==
    Row(<<"C", "0", "0", "2">>, <<"C">>, <<"4", ".", "7", "u", "F">>, Txt0603, <<"E">>, <<>>)

\* a row of a file whose header has no "Edited" column
RowWithoutEdited ==
    [Number |-> <<"C", "0", "0", "4">>, Type |-> <<"C">>, Value |-> Txt10uF,
     Footprint |-> Txt0603, Tier |-> <<"B">>]

RunFiles ==
    {None,
     FileOf(<<RowCapacitor>>),
     FileOf(<<RowExtended>>),
     FileOf(<<RowExtended, RowBasic>>),
     FileOf(<<RowExtended, RowPreferred>>),
     FileOf(<<RowPreferred, RowBasic>>),
     FileOf(<<RowBasic, RowPreferred>>),
     FileOf(<<RowExtendedOtherValue, RowBasic>>),
     FileOf(<<RowExtended, RowPreferred, RowBasic>>),
     FileOf(<<RowWithoutEdited>>)}

LcscField(number) == <<Field(<<"L", "C", "S", "C">>, number)>>

ComponentC1 ==
    Component(<<"C", "1">>, <<"1", "0", "u", "F", " ", "c", "e", "r", "a", "m", "i", "c">>,
              <<"C", "a", "p", "a", "c", "i", "t", "o", "r", "_", "S", "M", "D", ":", "C", "_", "0", "6", "0", "3">>,
              LcscField(<<"C", "0", "0", "1">>))

ComponentC2 ==
    Component(<<"C", "2">>, Txt10uF, Txt0603, LcscField(<<"C", "0", "0", "2">>))

ComponentC3 ==
    Component(<<"C", "3">>, Txt10uF, Txt0603, LcscField(<<"C", "9", "9", "9">>))

ComponentR1 ==
    Component(<<"R", "1">>, Txt10uF, Txt0603, LcscField(<<"C", "0", "0", "2">>))

ComponentC5 ==
    Component(<<"C", "5">>, Txt10uF, Txt0603, LcscField(<<"C", "0", "0", "3">>))

ComponentC8 ==
    Component(<<"C", "8">>, Txt10uF, Txt0603, LcscField(<<"C", "0", "0", "4">>))

ComponentU1 ==
    Component(<<"U", "1">>, <<"N", "E", "5", "5", "5">>, <<"D", "I", "P", "-", "8">>,
              <<Field(<<"D", "i", "g", "i", "-", "K", "e", "y", "_", "P", "N">>, <<"2", "9", "6", "-", "1", "4", "1", "1", "-", "5", "-", "N", "D">>)>>)

RunGroups ==
    {<<ComponentC1>>, <<ComponentC2>>, <<ComponentC3>>, <<ComponentR1>>,
     <<ComponentC5>>, <<ComponentC8>>, <<ComponentU1>>,
     <<ComponentC2, ComponentC3>>}

Init ==
    /\ pc = "start"
    /\ NormIdle
    /\ dbFile \in RunFiles
    /\ pklFile = None
    /\ PLUGIN_VERSION = PluginVersion1012
    /\ jlcDB = None
    /\ loadPath = "none"
    /\ CheckIdle
    /\ net \in SeqsUpTo(RunGroups, MaxGroups)
    /\ groupIdx = 1
    /\ jlcpcbRows = <<>>
    /\ digikeyRows = <<>>
    /\ orphanRows = <<>>
    /\ warnings = <<>>
    /\ jlcpcbItems = <<>>
    /\ jlcpcbFile = None
    /\ digikeyFile = None
    /\ orphanFile = None
    /\ reportFile = None
    /\ SanityIdle

\* one iteration of "for group in net.groupComponents()"
ProcessGroup ==
    /\ pc = "loaded"
    /\ groupIdx <= Len(net)
    /\ \E s \in {ProcessGroupBody(
                    [jlcpcbRows |-> jlcpcbRows, digikeyRows |-> digikeyRows,
                     orphanRows |-> orphanRows, warnings |-> warnings,
                     jlcpcbItems |-> jlcpcbItems],
                    net[groupIdx], jlcDB)} :
          /\ jlcpcbRows' = s.jlcpcbRows
          /\ digikeyRows' = s.digikeyRows
          /\ orphanRows' = s.orphanRows
          /\ warnings' = s.warnings
          /\ jlcpcbItems' = s.jlcpcbItems
    /\ groupIdx' = groupIdx + 1
    /\ UNCHANGED <<pc, normVars, fileVars, dbVars, checkVars, net, jlcpcbFile,
                   digikeyFile, orphanFile, reportFile, sanityVars>>

\* after the groups: the BoM files are written and the sanity-check starts,
\* if there is a database and a JLCPCB row
WriteBomFiles ==
    /\ pc = "loaded"
    /\ groupIdx > Len(net)
    /\ jlcpcbFile' = WrittenFile(JlcpcbHeader, jlcpcbRows)
    /\ digikeyFile' = WrittenFile(DigikeyHeader, digikeyRows)
    /\ orphanFile' = WrittenFile(OrphanHeader, orphanRows)
    /\ itemIdx' = 1
    /\ numPass' = 0
    /\ numFail' = 0
    /\ numUkn' = 0
    /\ jlcpcbSanityNotes' = <<>>
    /\ jlcpcbSanitySuggestions' = <<>>
    /\ jlcpcbSanityMissing' = <<>>
    /\ pc' = IF jlcDB # None /\ Len(jlcpcbRows) > 0 /\ Len(jlcpcbItems) > 0
             THEN "sanity" ELSE "report"
    /\ UNCHANGED <<normVars, fileVars, dbVars, checkVars, net, groupIdx,
                   jlcpcbRows, digikeyRows, orphanRows, warnings, jlcpcbItems,
                   reportFile>>

\* one iteration of "for jlcpcbPart in jlcpcbItems"
SanityCheckPart ==
    /\ pc = "sanity"
    /\ itemIdx <= Len(jlcpcbItems)
    /\ \E a \in {SanityIteration(jlcDB, jlcpcbItems[itemIdx],
                    [numPass |-> numPass, numFail |-> numFail,
                     numUkn |-> numUkn, notes |-> jlcpcbSanityNotes,
                     suggestions |-> jlcpcbSanitySuggestions,
                     missing |-> jlcpcbSanityMissing,
                     part |-> part, res |-> res, pNum |-> pNum,
                     tier |-> tier])} :
          /\ numPass' = a.numPass
          /\ numFail' = a.numFail
          /\ numUkn' = a.numUkn
          /\ jlcpcbSanityNotes' = a.notes
          /\ jlcpcbSanitySuggestions' = a.suggestions
          /\ jlcpcbSanityMissing' = a.missing
          /\ part' = a.part
          /\ res' = a.res
          /\ pNum' = a.pNum
          /\ tier' = a.tier
    /\ jlcpcbPart' = jlcpcbItems[itemIdx]
    /\ itemIdx' = itemIdx + 1
    /\ pc' = IF itemIdx = Len(jlcpcbItems) THEN "report" ELSE "sanity"
    /\ UNCHANGED <<normVars, fileVars, dbVars, bomVars>>

\* the report is generated and written
WriteReport ==
    /\ pc = "report"
    /\ reportFile' =
          ReportOf(PLUGIN_VERSION, jlcpcbRows, digikeyRows, orphanRows,
                   warnings, jlcDB, <<numPass, numFail, numUkn>>,
                   jlcpcbSanityNotes \o jlcpcbSanitySuggestions
                       \o jlcpcbSanityMissing)
    /\ pc' = "done"
    /\ UNCHANGED <<normVars, fileVars, dbVars, checkVars, net, groupIdx,
                   jlcpcbRows, digikeyRows, orphanRows, warnings, jlcpcbItems,
                   jlcpcbFile, digikeyFile, orphanFile, sanityVars>>

Next ==
    \/ LoadDatabase
    \/ ProcessGroup
    \/ WriteBomFiles
    \/ SanityCheckPart
    \/ WriteReport

Spec == Init /\ [][Next]_vars

(***************************************************************************)
(* The end-to-end scenario: the catalog of one Capacitor row and the       *)
(* family of the one component C1 declaring C001.                          *)
(***************************************************************************)
ScenarioRun ==
    /\ dbFile = FileOf(<<RowCapacitor>>)
    /\ net = <<<<ComponentC1>>>>
    /\ pc = "report"

ScenarioTypeNote ==
    <<"[", "C", "1", "]", " ", "i", "s", " ", "e", "x", "p", "e", "c",
        "t", "e", "d", " ", "t", "o", " ", "b", "e", " ", "t", "y", "p",
        "e", " ", "\"", "C", "a", "p", "a", "c", "i", "t", "o", "r",
        "\"">>

\* C6: with the catalog of the single row {C001, Capacitor, 10uF, 0603, B},
\* the component {C1, C001, "10uF ceramic", "Capacitor_SMD:C_0603"} is
\* counted as a pass, with no mismatch note and no suggestion.
C6_ScenarioMatched ==
    ScenarioRun =>
        /\ numPass = 1
        /\ numFail = 0
        /\ jlcpcbSanityNotes = <<>>
        /\ jlcpcbSanitySuggestions = <<>>

\* C6, as the code has it: the component of the scenario is counted as a
\* failure with the one note that C1 is expected to be of type "Capacitor"
\* (the letters of the reference, "C", are compared to the whole type), and
\* no suggestion and no missing part are recorded.
C6_ScenarioTypeMismatch ==
    ScenarioRun =>
        /\ numPass = 0
        /\ numFail = 1
        /\ numUkn = 0
        /\ jlcpcbSanityNotes = <<ScenarioTypeNote>>
        /\ jlcpcbSanitySuggestions = <<>>
        /\ jlcpcbSanityMissing = <<>>

C6_Witness ==
    /\ ScenarioRun
    /\ loadPath = "rebuilt"
    /\ jlcpcbPart = CachedJLCPCBPart(ComponentC1.fields[1].value,
                        ComponentC1.ref, ComponentC1.value,
                        <<"C", "_", "0", "6", "0", "3">>)
    /\ part # None
    /\ itemIdx = 2

(***************************************************************************)
(* The sanity-check loop and the suggestions.                              *)
(***************************************************************************)
\* the step checked a part that is in the database and does not match
MismatchStep == SanityCheckPart /\ part' # None /\ res' # <<>>

\* the step checked a part that is in the database and matches
MatchStep == SanityCheckPart /\ part' # None /\ res' = <<>>

\* the step checked a part that is not in the database
UnknownStep == SanityCheckPart /\ part' = None

BasicOrPreferred == {<<"B">>, <<"P">>}

HoldsBasicOrPreferred(bucket) ==
    \E i \in DOMAIN bucket : bucket[i].partTier \in BasicOrPreferred

\* C7: a component that does not match its database part still gets a
\* suggestion whenever the bucket of its value and footprint holds a Basic
\* or Preferred part.
C7_SuggestionOnMismatch ==
    [][(MismatchStep /\ HoldsBasicOrPreferred(TargetBucket(jlcDB, jlcpcbPart')))
          => Len(jlcpcbSanitySuggestions') = Len(jlcpcbSanitySuggestions) + 1
      ]_vars

\* C7, as the code has it: a component that does not match its database
\* part is counted as a failure with its note, the replacement lookup is
\* not made (pNum and tier stay) and no suggestion is recorded, whatever
\* its bucket holds.
C7_NoSuggestionOnMismatch ==
    [][MismatchStep =>
          /\ jlcpcbSanitySuggestions' = jlcpcbSanitySuggestions
          /\ pNum' = pNum
          /\ tier' = tier
          /\ numFail' = numFail + 1
          /\ jlcpcbSanityNotes' = Append(jlcpcbSanityNotes, res')
      ]_vars

C7_Witness ==
    /\ pc = "report"
    /\ part # None
    /\ res # <<>>
    /\ \E i \in DOMAIN TargetBucket(jlcDB, jlcpcbPart) :
           TargetBucket(jlcDB, jlcpcbPart)[i].partTier = <<"B">>
    /\ numFail = 1
    /\ jlcpcbSanitySuggestions = <<>>

\* the suggestion of the database part p for the component item
SuggestionOf(p, item, unknown) ==
    AltMessage(item.ref, p.partNum,
               IF p.partTier = <<"B">> THEN TxtBasic ELSE TxtPreferred,
               item.jlcpcbNum,
               IF unknown THEN TxtUnknown ELSE TxtExtended)

\* C8: a step of the sanity-check records a suggestion only for a part
\* that is not in the database or that matched an Extended part; the
\* suggestion is the one message naming a Basic or Preferred part of the
\* database whose number differs from the declared one; a part that matched
\* a Basic or Preferred part gets no suggestion.
C8_SuggestionOnlyForUnknownOrExtended ==
    [][SanityCheckPart =>
          /\ jlcpcbSanitySuggestions' # jlcpcbSanitySuggestions =>
                /\ UnknownStep \/ (MatchStep /\ getIsExtended(part'))
                /\ \E i \in DOMAIN jlcDB.parts :
                      /\ jlcDB.parts[i].partTier \in BasicOrPreferred
                      /\ jlcDB.parts[i].partNum # jlcpcbPart'.jlcpcbNum
                      /\ jlcpcbSanitySuggestions' =
                            Append(jlcpcbSanitySuggestions,
                                   SuggestionOf(jlcDB.parts[i], jlcpcbPart',
                                                part' = None))
          /\ (MatchStep /\ part'.partTier \in BasicOrPreferred) =>
                jlcpcbSanitySuggestions' = jlcpcbSanitySuggestions
      ]_vars

C8_Witness ==
    /\ pc = "report"
    /\ part # None
    /\ getIsExtended(part)
    /\ res = <<>>
    /\ numPass = 1
    /\ Len(jlcpcbSanitySuggestions) = 1
    /\ pNum # None

(***************************************************************************)
(* The run with a database file that is absent or cannot be read.          *)
(***************************************************************************)
\* the database file is absent
CatalogMissing == dbFile = None

\* the database file is there and its header lacks a column
CatalogMalformed == dbFile # None /\ RaisesKeyError(dbFile)

\* the run went to its end without a database: no part was checked, the
\* three BoM files hold the rows of the groups and the report is written
RanWithoutCatalog ==
    /\ pc # "aborted"
    /\ jlcDB = None
    /\ pc = "done" =>
          /\ groupIdx = Len(net) + 1
          /\ numPass = 0
          /\ numFail = 0
          /\ numUkn = 0
          /\ jlcpcbSanityNotes = <<>>
          /\ jlcpcbSanityMissing = <<>>
          /\ jlcpcbSanitySuggestions = <<>>
          /\ jlcpcbFile = WrittenFile(JlcpcbHeader, jlcpcbRows)
          /\ digikeyFile = WrittenFile(DigikeyHeader, digikeyRows)
          /\ orphanFile = WrittenFile(OrphanHeader, orphanRows)
          /\ reportFile # None
          /\ reportFile.sanity = [present |-> FALSE]

\* C11: when the database file is missing or malformed (its rows lack a
\* required column) the run does not abort: jlcDB is None, the pass, fail
\* and unknown counts are 0, no note, missing note or suggestion is made,
\* and the BoM rows and the report are still generated.
C11_UnusableCatalogDoesNotAbort ==
    (CatalogMissing \/ CatalogMalformed) => RanWithoutCatalog

(***************************************************************************)
(* SpecBom: runs of the script over families of components that have a     *)
(* JLCPCB field, a Digikey field, both or none.                            *)
(***************************************************************************)
Txt10k == <<"1", "0", "k">>

TxtR0603 == <<"R", "e", "s", "i", "s", "t", "o", "r", "_", "S", "M", "D", ":", "R", "_", "0", "6", "0", "3">>

BomComponent(ref, fields) == Component(ref, Txt10k, TxtR0603, fields)

TxtC100 == <<"C", "1", "0", "0">>

TxtC101Padded == <<" ", "C", "1", "0", "1", " ">>

TxtD200 == <<"D", "2", "0", "0", "-", "N", "D">>

ComponentJlcpcb == BomComponent(<<"R", "1">>, LcscField(TxtC100))

ComponentDigikey ==
    BomComponent(<<"R", "2">>, <<Field(<<"D", "i", "g", "i", "k", "e", "y">>, TxtD200)>>)

ComponentNoField == BomComponent(<<"R", "3">>, <<>>)

ComponentBoth ==
    BomComponent(<<"R", "4">>,
        <<Field(<<"L", "C", "S", "C">>, TxtC100),
          Field(<<"D", "i", "g", "i", "-", "K", "e", "y">>, TxtD200)>>)

\* field names in lower case, the Digikey field first
ComponentBothLower ==
    BomComponent(<<"R", "5">>,
        <<Field(<<"d", "i", "g", "i", "-", "k", "e", "y", "_", "p", "n">>, TxtD200),
          Field(<<"l", "c", "s", "c", " ", "p", "a", "r", "t">>, TxtC101Padded)>>)

ComponentOtherField ==
    BomComponent(<<"R", "6">>, <<Field(<<"M", "P", "N">>, TxtC100)>>)

\* a JLCPCB field with an empty value
ComponentEmptyJlcpcb ==
    BomComponent(<<"R", "7">>, <<Field(<<"J", "L", "C", "P", "C", "B">>, <<>>)>>)

BomGroups ==
    {<<ComponentJlcpcb>>, <<ComponentDigikey>>, <<ComponentNoField>>,
     <<ComponentBoth>>, <<ComponentBothLower>>, <<ComponentEmptyJlcpcb>>,
     <<ComponentJlcpcb, ComponentBoth>>,
     <<ComponentJlcpcb, ComponentBothLower>>,
     <<ComponentDigikey, ComponentNoField, ComponentOtherField>>,
     <<ComponentBoth, ComponentDigikey, ComponentNoField>>}

BomFiles == {None, FileOf(<<RowBasic>>)}

InitBom ==
    /\ pc = "start"
    /\ NormIdle
    /\ dbFile \in BomFiles
    /\ pklFile = None
    /\ PLUGIN_VERSION = PluginVersion1012
    /\ jlcDB = None
    /\ loadPath = "none"
    /\ CheckIdle
    /\ net \in SeqsUpTo(BomGroups, MaxGroups)
    /\ groupIdx = 1
    /\ jlcpcbRows = <<>>
    /\ digikeyRows = <<>>
    /\ orphanRows = <<>>
    /\ warnings = <<>>
    /\ jlcpcbItems = <<>>
    /\ jlcpcbFile = None
    /\ digikeyFile = None
    /\ orphanFile = None
    /\ reportFile = None
    /\ SanityIdle

NextBom ==
    \/ LoadDatabase
    \/ ProcessGroup
    \/ WriteBomFiles
    \/ SanityCheckPart
    \/ WriteReport

SpecBom == InitBom /\ [][NextBom]_vars

RECURSIVE SplitComma(_)
\* the references a Designator cell lists
SplitComma(s) ==
    IF \E i \in DOMAIN s : s[i] = ","
    THEN LET first == CHOOSE i \in DOMAIN s :
                        s[i] = "," /\ \A j \in 1..(i - 1) : s[j] # ","
         IN <<SubSeq(s, 1, first - 1)>>
                \o SplitComma(SubSeq(s, first + 1, Len(s)))
    ELSE <<s>>

\* the rows a step appended
NewRows(old, new) == SubSeq(new, Len(old) + 1, Len(new))

\* where the rows list the reference in their column col
Places(ref, rows, col) ==
    {pl \in UNION {{i} \X DOMAIN SplitComma(rows[i][col]) : i \in DOMAIN rows} :
        SplitComma(rows[pl[1]][col])[pl[2]] = ref}

\* the component has a field of one of the names, whatever the case
HasField(c, names) ==
    \E i \in DOMAIN c.fields, j \in DOMAIN names :
        StrLower(c.fields[i].name) = StrLower(names[j])

\* the stripped value of the first such field
FirstFieldValue(c, names) ==
    LET hits == {i \in DOMAIN c.fields :
                    \E j \in DOMAIN names :
                        StrLower(c.fields[i].name) = StrLower(names[j])}
    IN StrStrip(c.fields[CHOOSE i \in hits : \A j \in hits : i <= j].value)

MultipleDistributorsWarning(c) == TxtWarn \o c.ref \o TxtMultipleDistributors

\* C12: the step of a group lists the reference of each of its components
\* exactly once over the rows it appends to the three BoMs: in a JLCPCB row
\* of its JLCPCB part number if it has a JLCPCB field, otherwise in a
\* Digikey row of its Digikey part number if it has a Digikey field,
\* otherwise in the orphan row; it warns of multiple distributors exactly
\* once for a component that has both fields and never for another.
C12_EveryReferenceInExactlyOneBom ==
    [][ProcessGroup =>
        LET group == net[groupIdx]
            J == NewRows(jlcpcbRows, jlcpcbRows')
            D == NewRows(digikeyRows, digikeyRows')
            O == NewRows(orphanRows, orphanRows')
            W == NewRows(warnings, warnings')
        IN \A k \in DOMAIN group :
            LET c == group[k]
                inJ == Places(c.ref, J, 2)
                inD == Places(c.ref, D, 3)
                inO == Places(c.ref, O, 2)
                both == HasField(c, JLCPCB_FIELDS) /\ HasField(c, DIGIKEY_FIELDS)
            IN /\ Cardinality(inJ) + Cardinality(inD) + Cardinality(inO) = 1
               /\ IF HasField(c, JLCPCB_FIELDS)
                  THEN \E pl \in inJ :
                         J[pl[1]][4] = FirstFieldValue(c, JLCPCB_FIELDS)
                  ELSE IF HasField(c, DIGIKEY_FIELDS)
                  THEN \E pl \in inD :
                         D[pl[1]][5] = FirstFieldValue(c, DIGIKEY_FIELDS)
                  ELSE inO # {}
               /\ Cardinality({w \in DOMAIN W :
                                 W[w] = MultipleDistributorsWarning(c)})
                    = IF both THEN 1 ELSE 0
      ]_vars

\* the family of a component with both fields, one with a Digikey field
\* and one with none was processed
C12_Witness ==
    /\ net = <<<<ComponentBoth, ComponentDigikey, ComponentNoField>>>>
    /\ groupIdx = 2
    /\ Len(jlcpcbRows) = 1 /\ jlcpcbRows[1][2] = <<"R", "4">>
    /\ Len(digikeyRows) = 1 /\ digikeyRows[1][3] = <<"R", "2">>
    /\ Len(orphanRows) = 1 /\ orphanRows[1][2] = <<"R", "3">>
    /\ warnings = <<MultipleDistributorsWarning(ComponentBoth)>>

(***************************************************************************)
(* The database a run gets, against the database built from its file.      *)
(***************************************************************************)
\* the database JLCPCBPartDatabase builds from the file of this run
FreshBuild == JLCPCBPartDatabase(dbFile, None, PLUGIN_VERSION)

\* C13: over all runs of SpecCache (the database file replaced, releases
\* installed, the pickle file deleted or damaged between runs), the
\* database loadJLCPCBDatabase returns with the file present has the parts,
\* the partsLookup and the lastUpdate of a database built from the rows of
\* the file of that run, and the srcHash and srcPluginVer of that run.
C13_ReturnedDatabaseIsFreshBuild ==
    [][(LoadDatabase /\ dbFile # None /\ pc' = "loaded") =>
          /\ jlcDB' # None
          /\ jlcDB'.parts = FreshBuild.parts
          /\ jlcDB'.partsLookup = FreshBuild.partsLookup
          /\ jlcDB'.lastUpdate = FreshBuild.lastUpdate
          /\ jlcDB'.srcHash = computeSHA1(dbFile)
          /\ jlcDB'.srcPluginVer = PLUGIN_VERSION
      ]_vars

\* a run under the other release got the pickled database of an earlier
\* run, and it is the database of the two rows
C13_Witness ==
    /\ pc = "loaded"
    /\ loadPath = "cached"
    /\ PLUGIN_VERSION = PluginVersionOther
    /\ dbFile = FileOf(<<CacheRowA, CacheRowB>>)
    /\ jlcDB = FreshBuild
    /\ Len(jlcDB.parts) = 2
    /\ jlcDB.lastUpdate = 20240101

====
